---------------------------- MODULE Spec2Model ----------------------------
(***************************************************************************)
(* Model of Classification/utils.py of kaka-lin/MLCC: the two table        *)
(* preparation functions, the batched input iterator built by my_input_fn, *)
(* and the periodic train / predict / score loop of                        *)
(* train_linear_regressor_model and train_linear_classifier_model.         *)
(*                                                                         *)
(* A caller exercises one entry point of the module per behaviour          *)
(* (variable entry): the preparation functions on a table, one iterator    *)
(* of my_input_fn, or a sequence of calls of the training functions.       *)
(*                                                                         *)
(* Numbers are exact rationals <<n, d>> in lowest terms with d >= 0; the   *)
(* IEEE values of a division by zero are <<1, 0>> (inf), <<-1, 0>> (-inf)  *)
(* and <<0, 0>> (NaN).  The interpreter is Python 3: "/" is true division. *)
(***************************************************************************)
EXTENDS Integers, Sequences, FiniteSets, TLC

\* ------------------------------------------------------------- bounds

\* Rows of a table handed to the preparation functions or to my_input_fn.
MaxRows == 3
\* Largest batch_size tried.
MaxBatch == 2
\* Largest finite num_epochs tried.
MaxEpochs == 2
\* Batches requested from one iterator.
MaxPulls == 5
\* Largest steps argument of a training call.
MaxSteps == 10
\* Calls of the training functions in one process.
MaxCalls == 2
\* Rows of the training and of the validation table of a training call.
NTrainRows == 2
NValidRows == 1

\* ------------------------------------------------------------ numbers

RECURSIVE GCD(_, _)
GCD(a, b) == IF b = 0 THEN a ELSE GCD(b, a % b)

Abs(a) == IF a < 0 THEN -a ELSE a

Sign(a) == IF a > 0 THEN 1 ELSE IF a < 0 THEN -1 ELSE 0

Num(a) == <<a, 1>>

NaN == <<0, 0>>

\* numpy's elementwise a / b on two float cells: inf or NaN on a zero divisor,
\* no exception.
TrueDivide(a, b) ==
    LET n == a[1] * b[2]
        d == a[2] * b[1]
    IN  IF d = 0
        THEN <<Sign(n), 0>>
        ELSE LET g == GCD(Abs(n), Abs(d))
             IN  <<(Sign(d) * n) \div g, Abs(d) \div g>>

GreaterOrEqual(a, t) ==
    IF a[2] = 0 THEN a[1] > 0 ELSE a[1] >= t * a[2]

\* a > t on a float cell and an integer: False for NaN.
Greater(a, t) ==
    IF a[2] = 0 THEN a[1] > 0 ELSE a[1] > t * a[2]

\* bool -> float of .astype(float).
AsFloat(b) == IF b THEN Num(1) ELSE Num(0)

Range(s) == {s[i] : i \in DOMAIN s}

Min(a, b) == IF a < b THEN a ELSE b

\* ------------------------------------------------------------- tables

\* A DataFrame: row labels, column names in order, one value list per column.
\* A Series: row labels and values.
EmptyFrame == [index |-> <<>>, columns |-> <<>>, data |-> <<>>]

HasColumn(df, name) == name \in Range(df.columns)

\* df[name]
GetColumn(df, name) == [index |-> df.index, values |-> df.data[name]]

\* df[[names]] : a new frame with these columns, in this order.
SelectColumns(df, names) ==
    [index   |-> df.index,
     columns |-> names,
     data    |-> [c \in Range(names) |-> df.data[c]]]

Position(index, label) == CHOOSE p \in DOMAIN index : index[p] = label

\* The values of a Series laid out along another index: by label, NaN where the
\* label is missing.
Reindex(series, index) ==
    [p \in DOMAIN index |->
        IF index[p] \in Range(series.index)
        THEN series.values[Position(series.index, index[p])]
        ELSE NaN]

SeriesDivideSwapped(s1, s2) ==
    [index  |-> s1.index,
     values |-> [p \in DOMAIN s1.index |->
                    TrueDivide(Reindex(s2, s1.index)[p], s1.values[p])]]

\* s1 / s2 : aligned on the labels of s1, divided cell by cell.
SeriesDivide(s1, s2) ==
    [index  |-> s1.index,
     values |-> [p \in DOMAIN s1.index |->
                    TrueDivide(s1.values[p], Reindex(s2, s1.index)[p])]]

\* (s > threshold).astype(float)
SeriesGreaterAsFloat(s, threshold) ==
    [index  |-> s.index,
     values |-> [p \in DOMAIN s.index |-> AsFloat(Greater(s.values[p], threshold))]]

\* df[name] = series : a frame without columns takes the labels of the series,
\* any other frame takes the values along its own labels.
SetColumn(df, name, series) ==
    LET index == IF df.columns = <<>> /\ df.index = <<>>
                 THEN series.index ELSE df.index
        names == IF HasColumn(df, name) THEN df.columns ELSE Append(df.columns, name)
    IN  [index   |-> index,
         columns |-> names,
         data    |-> [c \in Range(names) |->
                        IF c = name THEN Reindex(series, index) ELSE df.data[c]]]

selected_names ==
    <<"latitude", "longitude", "housing_median_age", "total_rooms",
      "total_bedrooms", "population", "households", "median_income">>

DefaultThreshold == 265000

\* The outcome of a call: what it raised, what it returned, and the caller's
\* table after the call.
preprocess_features_inplace(california_housing_df) ==
    IF \E c \in Range(selected_names) : ~HasColumn(california_housing_df, c)
    THEN [raised |-> "KeyError", value |-> EmptyFrame, input |-> california_housing_df]
    ELSE LET out == SetColumn(california_housing_df, "rooms_per_person",
                        SeriesDivide(GetColumn(california_housing_df, "total_rooms"),
                                     GetColumn(california_housing_df, "population")))
         IN  [raised |-> "none", value |-> out, input |-> out]

preprocess_features(california_housing_df) ==
    IF \E c \in Range(selected_names) : ~HasColumn(california_housing_df, c)
    THEN [raised |-> "KeyError", value |-> EmptyFrame, input |-> california_housing_df]
    ELSE LET selected_features  == SelectColumns(california_housing_df, selected_names)
             processed_features == selected_features
         IN  [raised |-> "none",
              value  |-> SetColumn(processed_features, "rooms_per_person",
                            SeriesDivide(GetColumn(california_housing_df, "total_rooms"),
                                         GetColumn(california_housing_df, "population"))),
              input  |-> california_housing_df]

preprocess_targets(california_housing_df, threshold) ==
    IF ~HasColumn(california_housing_df, "median_house_value")
    THEN [raised |-> "KeyError", value |-> EmptyFrame, input |-> california_housing_df]
    ELSE LET output_targets == EmptyFrame
         IN  [raised |-> "none",
              value  |-> SetColumn(output_targets, "median_house_value_is_high",
                            SeriesGreaterAsFloat(
                                GetColumn(california_housing_df, "median_house_value"),
                                threshold)),
              input  |-> california_housing_df]

\* ----------------------------------------------------------- my_input_fn

\* num_epochs=None, as the count -1 that Dataset.repeat turns it into.
None == -1

buffer_size == 10000

NumBatchesDropRemainder(N, batch_size) == N \div batch_size

\* Dataset.batch(batch_size) over N rows: consecutive rows, the last batch
\* possibly shorter.  Rows are named by their position 1..N in the table.
NumBatches(N, batch_size) == (N + batch_size - 1) \div batch_size

Batch(N, batch_size, j) ==
    [k \in 1..Min(batch_size, N - j * batch_size) |-> j * batch_size + k]

\* .batch(batch_size).repeat(num_epochs): whether it has an element number i
\* (from 0), and which batch of the epoch that element is.  Repeating an empty
\* dataset yields nothing, also for num_epochs=None.
UpstreamHas(it, i) ==
    /\ NumBatches(it.N, it.batch_size) > 0
    /\ (it.num_epochs = None \/ i < it.num_epochs * NumBatches(it.N, it.batch_size))

UpstreamBatch(it, i) == i % NumBatches(it.N, it.batch_size)

\* Elements that .shuffle(buffer_size) holds before it delivers its first one.
Prefetched(it) ==
    IF NumBatches(it.N, it.batch_size) = 0 THEN 0
    ELSE IF it.num_epochs = None THEN buffer_size
    ELSE Min(buffer_size, it.num_epochs * NumBatches(it.N, it.batch_size))

\* The one-shot iterator my_input_fn returns: the pipeline's parameters, the
\* number of elements taken from batch().repeat(), and the shuffle buffer as
\* the number of copies it holds of each batch of the epoch.
my_input_fn(N, batch_size, shuffle, num_epochs) ==
    LET it == [N |-> N, batch_size |-> batch_size, shuffle |-> shuffle,
               num_epochs |-> num_epochs]
        B  == NumBatches(N, batch_size)
        K  == IF shuffle THEN Prefetched(it) ELSE 0
    IN  [N |-> N, batch_size |-> batch_size, shuffle |-> shuffle,
         num_epochs |-> num_epochs,
         pulled |-> K,
         buffer |-> [j \in 0..(B - 1) |->
                        IF shuffle
                        THEN (K \div B) + (IF j < K % B THEN 1 ELSE 0)
                        ELSE 0]]

\* One evaluation of get_next(): the batches it may deliver, each with the
\* iterator it leaves; no outcome at all is OutOfRangeError.
get_next(it) ==
    IF ~it.shuffle
    THEN IF UpstreamHas(it, it.pulled)
         THEN {[batch |-> Batch(it.N, it.batch_size, UpstreamBatch(it, it.pulled)),
                it    |-> [it EXCEPT !.pulled = @ + 1]]}
         ELSE {}
    ELSE {[batch |-> Batch(it.N, it.batch_size, j),
           it    |-> IF UpstreamHas(it, it.pulled)
                     THEN LET u == UpstreamBatch(it, it.pulled)
                          IN  [it EXCEPT
                                 !.pulled = @ + 1,
                                 !.buffer = [i \in DOMAIN it.buffer |->
                                     it.buffer[i] - (IF i = j THEN 1 ELSE 0)
                                                  + (IF i = u THEN 1 ELSE 0)]]
                     ELSE [it EXCEPT !.buffer[j] = @ - 1]]
          : j \in {i \in DOMAIN it.buffer : it.buffer[i] > 0}}

\* Every way a finite iterator can be read to its end: the sequences of batches.
RECURSIVE Drain(_)
Drain(it) ==
    IF get_next(it) = {} THEN {<<>>}
    ELSE UNION {{<<o.batch>> \o rest : rest \in Drain(o.it)} : o \in get_next(it)}

RECURSIVE Flatten(_)
Flatten(batches) ==
    IF batches = <<>> THEN <<>> ELSE Head(batches) \o Flatten(Tail(batches))

\* ------------------------------------------------------ training: helpers

periods == 10

\* steps / periods under true division.
StepsPerPeriod(steps) == TrueDivide(Num(steps), Num(periods))

\* Estimator.train(steps=s) on an input that never ends: the stop hook sets
\* last_step = global_step + s and stops at the first global step >= last_step,
\* so a fractional s runs up to the next whole step.
StepsRun(steps_per_period) ==
    (steps_per_period[1] + steps_per_period[2] - 1) \div steps_per_period[2]

\* The three lambdas: which table they read and the iterator they build.
training_input_fn(batch_size) ==
    [data |-> "training", it |-> my_input_fn(NTrainRows, batch_size, TRUE, None)]

predict_training_input_fn_shuffled ==
    [data |-> "training", it |-> my_input_fn(NTrainRows, 1, TRUE, 1)]

predict_training_input_fn ==
    [data |-> "training", it |-> my_input_fn(NTrainRows, 1, FALSE, 1)]

predict_validation_input_fn ==
    [data |-> "validation", it |-> my_input_fn(NValidRows, 1, FALSE, 1)]

NoEstimator == [id |-> 0, global_step |-> 0, chunks |-> 0, trained_on |-> {}]

\* tf.estimator.LinearRegressor(...) / LinearClassifier(...): a fresh object.
NewEstimator(id) == [id |-> id, global_step |-> 0, chunks |-> 0, trained_on |-> {}]

\* estimator.train(input_fn, steps): continues from the estimator's own state.
Train(estimator, input, steps_per_period) ==
    [estimator EXCEPT !.global_step = @ + StepsRun(steps_per_period),
                      !.chunks = @ + 1,
                      !.trained_on = @ \cup {input.data}]

NoPredictions == [est |-> 0, data |-> "", rows |-> <<>>, chunks |-> 0]

\* estimator.predict(input_fn) read to its end: one prediction per row the
\* iterator delivers, in the order delivered.
Predict(estimator, input) ==
    {[est |-> estimator.id, data |-> input.data, rows |-> Flatten(batches),
      chunks |-> estimator.chunks] : batches \in Drain(input.it)}

NoMetric == [est |-> 0, pred_data |-> "", targ_data |-> "", pred_rows |-> <<>>,
             targ_rows |-> <<>>, chunks |-> 0]

\* mean_squared_error / log_loss of predictions against a targets table of
\* NRows rows: prediction i is scored against row i of the targets.
Metric(predictions, targ_data, NRows) ==
    [est |-> predictions.est,
     pred_data |-> predictions.data, targ_data |-> targ_data,
     pred_rows |-> predictions.rows, targ_rows |-> [i \in 1..NRows |-> i],
     chunks |-> predictions.chunks]

Line(text) == [text |-> text, period |-> -1, value |-> NoMetric]

\* "  period {:2d} : {:.2f}".format(period, <training metric>)
PeriodLineValidation(period, training_metric, validation_metric) ==
    [text |-> "period", period |-> period, value |-> validation_metric]

PeriodLine(period, training_metric, validation_metric) ==
    [text |-> "period", period |-> period, value |-> training_metric]

Header(fn) ==
    <<Line("Training model..."),
      Line(IF fn = "regressor" THEN "RMSE (on training data):"
                               ELSE "LogLoss (on training data):")>>

\* for period in range(0, periods): where control goes after a period's body.
AfterPeriodOneMore(period) == IF period + 1 <= periods THEN "train" ELSE "finish"

AfterPeriod(period) == IF period + 1 < periods THEN "train" ELSE "finish"

\* No try/except anywhere: an exception of a library call ends the function.
ContinuePastFailure(at) ==
    CASE at = "train" -> "predict_training"
      [] at = "predict_training" -> "predict_validation"
      [] at = "predict_validation" -> "training_metric"
      [] at = "training_metric" -> "validation_metric"
      [] OTHER -> "print"

Propagate(at) == "raised"

\* ------------------------------------------------------------- pyplot

NewFigure == [ylabel |-> "", title |-> "", lines |-> <<>>]

\* The current figure is the last one made; one is made when there is none.
Gcf(figs) == IF figs = <<>> THEN <<NewFigure>> ELSE figs

PltFigure(figs) == Append(figs, NewFigure)

PltLabels(figs, ylabel, title) ==
    LET f == Gcf(figs)
    IN  [f EXCEPT ![Len(f)].ylabel = ylabel, ![Len(f)].title = title]

PltPlot(figs, data, label) ==
    LET f == Gcf(figs)
    IN  [f EXCEPT ![Len(f)].lines = Append(@, [label |-> label, data |-> data])]

PlotRegressor(figs, training_rmse, validation_rmse) ==
    PltPlot(PltPlot(PltLabels(figs, "RMSE", "Root Mean Squared Error vs. Periods"),
                    training_rmse, "training"),
            validation_rmse, "validation")

PlotClassifier(figs, training_log_losses, validation_log_losses) ==
    PltPlot(PltPlot(PltLabels(PltFigure(figs), "LogLoss", "LogLoss vs. Periods"),
                    training_log_losses, "training"),
            validation_log_losses, "validation")

\* -------------------------------------------------------------- state

VARIABLES
    entry,                  \* which part of the module the caller exercises
    \* the preparation functions
    california_housing_df,  \* the caller's table
    processed_features,     \* the call of preprocess_features: state, table returned
    output_targets,         \* the call of preprocess_targets: state, table, threshold
    \* my_input_fn
    iterator,               \* the one-shot iterator
    delivered,              \* the batches get_next() has delivered, in order
    exhausted,              \* get_next() has raised OutOfRangeError
    \* the training functions
    pc,                     \* position in the running call
    calls,                  \* calls started in this process
    fn,                     \* "regressor" or "classifier"
    steps,
    batch_size,
    steps_per_period,
    estimator,              \* linear_regressor / linear_classifier
    period,
    training_predictions,
    validation_predictions,
    training_metric,        \* training_root_mean_squared_error / training_log_loss
    validation_metric,
    training_hist,          \* training_rmse / training_log_losses
    validation_hist,        \* validation_rmse / validation_log_losses
    stdout,                 \* the lines the running call has printed
    raised,                 \* the library call whose exception left the function
    returned,               \* the object the call returned
    figures                 \* pyplot's figures, the last one current

preVars == <<california_housing_df, processed_features, output_targets>>

inVars == <<iterator, delivered, exhausted>>

localVars ==
    <<fn, steps, batch_size, steps_per_period, estimator, period,
      training_predictions, validation_predictions, training_metric,
      validation_metric, training_hist, validation_hist, stdout, raised, returned>>

trainVars == <<pc, calls, localVars, figures>>

vars == <<entry, preVars, inVars, trainVars>>

\* ------------------------------------------------------------ inputs

MaxTableRows == 2

RoomsChoices == {0, 3}

PopulationChoices == {0, 2}

ValueChoices == {NaN, Num(DefaultThreshold), Num(DefaultThreshold + 1)}

ThresholdChoices == {DefaultThreshold, DefaultThreshold + 1}

all_names == selected_names \o <<"median_house_value">>

ColumnChoices ==
    {all_names,
     all_names \o <<"ocean_proximity">>,
     SelectSeq(all_names, LAMBDA c : c # "population"),
     selected_names}

\* A table of N rows, labelled N..1, with the given columns.
Table(N, names, rooms, population, value) ==
    [index   |-> [p \in 1..N |-> N + 1 - p],
     columns |-> names,
     data    |-> [c \in Range(names) |->
                    [p \in 1..N |->
                        CASE c = "total_rooms" -> Num(rooms[p])
                          [] c = "population" -> Num(population[p])
                          [] c = "median_house_value" -> value[p]
                          [] OTHER -> Num(p)]]]

Tables ==
    UNION {{Table(N, names, rooms, population, value) :
                names \in ColumnChoices,
                rooms \in [1..N -> RoomsChoices],
                population \in [1..N -> PopulationChoices],
                value \in [1..N -> ValueChoices]} : N \in 0..MaxTableRows}

NotCalled == [state |-> "not_called", df |-> EmptyFrame, threshold |-> 0]

Iterators ==
    {my_input_fn(N, b, shuffle, num_epochs) :
        N \in 0..MaxRows, b \in 1..MaxBatch, shuffle \in BOOLEAN,
        num_epochs \in {None} \cup (1..MaxEpochs)}

NoIterator == [N |-> 0, batch_size |-> 1, shuffle |-> FALSE, num_epochs |-> 0,
               pulled |-> 0, buffer |-> <<>>]

InitPre ==
    /\ california_housing_df = EmptyFrame
    /\ processed_features = NotCalled
    /\ output_targets = NotCalled

InitIn ==
    /\ iterator = NoIterator
    /\ delivered = <<>>
    /\ exhausted = FALSE

InitTrain ==
    /\ pc = "idle"
    /\ calls = 0
    /\ fn = ""
    /\ steps = 0
    /\ batch_size = 0
    /\ steps_per_period = Num(0)
    /\ estimator = NoEstimator
    /\ period = 0
    /\ training_predictions = NoPredictions
    /\ validation_predictions = NoPredictions
    /\ training_metric = NoMetric
    /\ validation_metric = NoMetric
    /\ training_hist = <<>>
    /\ validation_hist = <<>>
    /\ stdout = <<>>
    /\ raised = ""
    /\ returned = NoEstimator
    /\ figures = <<>>

Init ==
    \/ /\ entry = "preprocess"
       /\ california_housing_df \in Tables
       /\ processed_features = NotCalled
       /\ output_targets = NotCalled
       /\ InitIn
       /\ InitTrain
    \/ /\ entry = "input_fn"
       /\ iterator \in Iterators
       /\ delivered = <<>>
       /\ exhausted = FALSE
       /\ InitPre
       /\ InitTrain
    \/ /\ entry = "train"
       /\ InitPre
       /\ InitIn
       /\ InitTrain

\* ---------------------------------------- actions: the preparation functions

CallPreprocessFeatures ==
    /\ entry = "preprocess"
    /\ processed_features.state = "not_called"
    /\ LET r == preprocess_features(california_housing_df)
       IN  /\ processed_features' =
                [state |-> IF r.raised = "none" THEN "returned" ELSE r.raised,
                 df |-> r.value, threshold |-> 0]
           /\ california_housing_df' = r.input
    /\ UNCHANGED <<entry, output_targets, inVars, trainVars>>

CallPreprocessTargets ==
    /\ entry = "preprocess"
    /\ output_targets.state = "not_called"
    /\ \E threshold \in ThresholdChoices :
         LET r == preprocess_targets(california_housing_df, threshold)
         IN  /\ output_targets' =
                  [state |-> IF r.raised = "none" THEN "returned" ELSE r.raised,
                   df |-> r.value, threshold |-> threshold]
             /\ california_housing_df' = r.input
    /\ UNCHANGED <<entry, processed_features, inVars, trainVars>>

\* ------------------------------------------------------ actions: the iterator

GetNext ==
    /\ entry = "input_fn"
    /\ ~exhausted
    /\ Len(delivered) <= MaxPulls
    /\ IF get_next(iterator) = {}
       THEN /\ exhausted' = TRUE
            /\ UNCHANGED <<iterator, delivered>>
       ELSE /\ Len(delivered) < MaxPulls
            /\ \E o \in get_next(iterator) :
                 /\ delivered' = Append(delivered, o.batch)
                 /\ iterator' = o.it
            /\ UNCHANGED exhausted
    /\ UNCHANGED <<entry, preVars, trainVars>>

\* ------------------------------------------- actions: the training functions

\* The call and everything up to the loop: periods, steps_per_period, the
\* estimator, the two header lines, the two empty histories.
Call ==
    /\ entry = "train"
    /\ pc \in {"idle", "returned", "raised"}
    /\ calls < MaxCalls
    /\ \E f \in {"regressor", "classifier"}, s \in 1..MaxSteps, b \in 1..MaxBatch :
         /\ fn' = f
         /\ steps' = s
         /\ batch_size' = b
         /\ steps_per_period' = StepsPerPeriod(s)
         /\ stdout' = Header(f)
    /\ calls' = calls + 1
    /\ estimator' = NewEstimator(calls + 1)
    /\ period' = 0
    /\ training_predictions' = NoPredictions
    /\ validation_predictions' = NoPredictions
    /\ training_metric' = NoMetric
    /\ validation_metric' = NoMetric
    /\ training_hist' = <<>>
    /\ validation_hist' = <<>>
    /\ raised' = ""
    /\ returned' = NoEstimator
    /\ pc' = "train"
    /\ UNCHANGED <<entry, preVars, inVars, figures>>

TrainChunk ==
    /\ pc = "train"
    /\ estimator' = Train(estimator, training_input_fn(batch_size), steps_per_period)
    /\ pc' = "predict_training"
    /\ UNCHANGED <<entry, preVars, inVars, calls, fn, steps, batch_size,
                   steps_per_period, period, training_predictions,
                   validation_predictions, training_metric, validation_metric,
                   training_hist, validation_hist, stdout, raised, returned, figures>>

PredictTraining ==
    /\ pc = "predict_training"
    /\ training_predictions' \in Predict(estimator, predict_training_input_fn)
    /\ pc' = "predict_validation"
    /\ UNCHANGED <<entry, preVars, inVars, calls, fn, steps, batch_size,
                   steps_per_period, estimator, period,
                   validation_predictions, training_metric, validation_metric,
                   training_hist, validation_hist, stdout, raised, returned, figures>>

PredictValidation ==
    /\ pc = "predict_validation"
    /\ validation_predictions' \in Predict(estimator, predict_validation_input_fn)
    /\ pc' = "training_metric"
    /\ UNCHANGED <<entry, preVars, inVars, calls, fn, steps, batch_size,
                   steps_per_period, estimator, period,
                   training_predictions, training_metric, validation_metric,
                   training_hist, validation_hist, stdout, raised, returned, figures>>

TrainingMetric ==
    /\ pc = "training_metric"
    /\ training_metric' = Metric(training_predictions, "training", NTrainRows)
    /\ pc' = "validation_metric"
    /\ UNCHANGED <<entry, preVars, inVars, calls, fn, steps, batch_size,
                   steps_per_period, estimator, period, training_predictions,
                   validation_predictions, validation_metric,
                   training_hist, validation_hist, stdout, raised, returned, figures>>

ValidationMetric ==
    /\ pc = "validation_metric"
    /\ validation_metric' = Metric(validation_predictions, "validation", NValidRows)
    /\ pc' = "print"
    /\ UNCHANGED <<entry, preVars, inVars, calls, fn, steps, batch_size,
                   steps_per_period, estimator, period, training_predictions,
                   validation_predictions, training_metric,
                   training_hist, validation_hist, stdout, raised, returned, figures>>

\* The train, predict or metric call at pc raises.
LibraryCallRaises ==
    /\ pc \in {"train", "predict_training", "predict_validation",
               "training_metric", "validation_metric"}
    /\ raised' = pc
    /\ pc' = Propagate(pc)
    /\ UNCHANGED <<entry, preVars, inVars, calls, fn, steps, batch_size,
                   steps_per_period, estimator, period, training_predictions,
                   validation_predictions, training_metric, validation_metric,
                   training_hist, validation_hist, stdout, returned, figures>>

PrintPeriod ==
    /\ pc = "print"
    /\ stdout' = Append(stdout, PeriodLine(period, training_metric, validation_metric))
    /\ pc' = "append"
    /\ UNCHANGED <<entry, preVars, inVars, calls, fn, steps, batch_size,
                   steps_per_period, estimator, period, training_predictions,
                   validation_predictions, training_metric, validation_metric,
                   training_hist, validation_hist, raised, returned, figures>>

\* The two appends, and the loop's step to the next period or out of the loop.
AppendMetrics ==
    /\ pc = "append"
    /\ training_hist' = Append(training_hist, training_metric)
    /\ validation_hist' = Append(validation_hist, validation_metric)
    /\ pc' = AfterPeriod(period)
    /\ period' = IF AfterPeriod(period) = "train" THEN period + 1 ELSE period
    /\ UNCHANGED <<entry, preVars, inVars, calls, fn, steps, batch_size,
                   steps_per_period, estimator, training_predictions,
                   validation_predictions, training_metric, validation_metric,
                   stdout, raised, returned, figures>>

PrintFinished ==
    /\ pc = "finish"
    /\ stdout' = Append(stdout, Line("Model training finished."))
    /\ pc' = "plot"
    /\ UNCHANGED <<entry, preVars, inVars, calls, fn, steps, batch_size,
                   steps_per_period, estimator, period, training_predictions,
                   validation_predictions, training_metric, validation_metric,
                   training_hist, validation_hist, raised, returned, figures>>

Plot ==
    /\ pc = "plot"
    /\ figures' = IF fn = "regressor"
                  THEN PlotRegressor(figures, training_hist, validation_hist)
                  ELSE PlotClassifier(figures, training_hist, validation_hist)
    /\ pc' = "return"
    /\ UNCHANGED <<entry, preVars, inVars, calls, localVars>>

Return ==
    /\ pc = "return"
    /\ returned' = estimator
    /\ pc' = "returned"
    /\ UNCHANGED <<entry, preVars, inVars, calls, fn, steps, batch_size,
                   steps_per_period, estimator, period, training_predictions,
                   validation_predictions, training_metric, validation_metric,
                   training_hist, validation_hist, stdout, raised, figures>>

\* ------------------------------------------------------- specification

Next ==
    \/ CallPreprocessFeatures
    \/ CallPreprocessTargets
    \/ GetNext
    \/ Call
    \/ TrainChunk
    \/ PredictTraining
    \/ PredictValidation
    \/ TrainingMetric
    \/ ValidationMetric
    \/ LibraryCallRaises
    \/ PrintPeriod
    \/ AppendMetrics
    \/ PrintFinished
    \/ Plot
    \/ Return

Spec == Init /\ [][Next]_vars

\* --------------------------------------------------------- properties

InLoop == {"train", "predict_training", "predict_validation", "training_metric",
           "validation_metric", "print", "append"}

AfterLoop == {"finish", "plot", "return", "returned"}

\* C1: in both training functions the two metric histories start empty, have
\* equal length whenever a library call, a print or the loop header is reached
\* (the two appends are consecutive statements), hold one value per completed
\* period, and hold 10 values each once the loop has ended, whatever steps and
\* batch_size are.
C1_HistoryLengths ==
    pc # "idle" =>
        /\ Len(training_hist) = Len(validation_hist)
        /\ (pc \in InLoop \cup {"raised"}) => Len(training_hist) = period
        /\ (pc = "train" /\ estimator.chunks = 0) => training_hist = <<>>
        /\ pc \in AfterLoop => Len(training_hist) = 10 /\ estimator.chunks = 10

C1_Witness ==
    /\ pc = "returned"
    /\ steps = 7
    /\ batch_size = 2
    /\ Len(training_hist) = 10
    /\ Len(validation_hist) = 10

\* C2: after the train call of period k (k = 1..10) the estimator has been
\* trained for exactly k * steps / 10 steps, and the estimator returned has
\* been trained for exactly steps steps, for every positive steps.
C2_TotalStepsEqualSteps ==
    /\ pc \in (InLoop \ {"train"}) => 10 * estimator.global_step = (period + 1) * steps
    /\ pc = "returned" => returned.global_step = steps

\* C3: one estimator per call, built before the loop; in every period train,
\* then predict on training data, then predict on validation data, then both
\* metrics, then the line "period <index> : <training metric>", then the two
\* appends; the indices printed are 0..9 in order; "Model training finished."
\* and the plot come only after 10 periods; the estimator returned is the one
\* trained in the loop.
C3_LinearFlow ==
    pc # "idle" =>
        /\ estimator.id = calls
        /\ pc \in InLoop =>
              estimator.chunks = period + (IF pc = "train" THEN 0 ELSE 1)
        /\ pc \in InLoop =>
              /\ training_predictions.chunks =
                    period + (IF pc \in {"train", "predict_training"} THEN 0 ELSE 1)
              /\ validation_predictions.chunks =
                    period + (IF pc \in {"train", "predict_training",
                                         "predict_validation"} THEN 0 ELSE 1)
              /\ training_metric.chunks =
                    period + (IF pc \in {"validation_metric", "print", "append"}
                              THEN 1 ELSE 0)
              /\ validation_metric.chunks =
                    period + (IF pc \in {"print", "append"} THEN 1 ELSE 0)
              /\ Len(stdout) = 2 + period + (IF pc = "append" THEN 1 ELSE 0)
              /\ Len(training_hist) = period
        /\ \A i \in 3..Len(stdout) :
              stdout[i].text = "period" =>
                  /\ stdout[i].period = i - 3
                  /\ stdout[i].period \in 0..9
                  /\ stdout[i].value.pred_data = "training"
                  /\ stdout[i].value.chunks = i - 2
                  /\ stdout[i].value.est = calls
        /\ \A i \in 1..Len(stdout) :
              stdout[i].text = "Model training finished." =>
                  /\ i = 13
                  /\ \A j \in 3..12 : stdout[j].text = "period"
                  /\ pc \in {"plot", "return", "returned"}
        /\ (\E k \in 1..Len(figures) : \E l \in Range(figures[k].lines) :
                \E e \in Range(l.data) : e.est = calls) =>
              /\ pc \in {"return", "returned"}
              /\ Len(stdout) = 13
        /\ pc = "returned" =>
              /\ returned = estimator
              /\ returned.id = calls
              /\ returned.chunks = 10
        /\ pc # "returned" => returned = NoEstimator

C3_Witness ==
    /\ pc = "returned"
    /\ fn = "classifier"
    /\ Len(stdout) = 13
    /\ stdout[12].period = 9
    /\ returned.chunks = 10

\* C6: whatever calls of the training functions came before, the histories of
\* a call and the figure it plotted into hold only that call's own two series
\* of 10 points each.
C6_OwnSeriesOnly ==
    pc \in {"return", "returned"} =>
        /\ \A e \in Range(training_hist) \cup Range(validation_hist) : e.est = calls
        /\ Len(figures[Len(figures)].lines) = 2
        /\ \A l \in Range(figures[Len(figures)].lines) :
              /\ Len(l.data) = 10
              /\ \A e \in Range(l.data) : e.est = calls

\* C4: the table preprocess_targets returns has the one column
\* median_house_value_is_high and the rows of its input; every value is 0.0 or
\* 1.0, and it is 1.0 exactly where median_house_value is strictly greater
\* than the threshold of the call (equal gives 0.0); the default threshold is
\* 265000.
C4_BinaryTarget ==
    /\ DefaultThreshold = 265000
    /\ output_targets.state = "returned" =>
          LET t   == output_targets.df
              col == t.data["median_house_value_is_high"]
              src == california_housing_df.data["median_house_value"]
          IN  /\ t.columns = <<"median_house_value_is_high">>
              /\ DOMAIN t.data = {"median_house_value_is_high"}
              /\ t.index = california_housing_df.index
              /\ Len(col) = Len(california_housing_df.index)
              /\ \A p \in DOMAIN col :
                    /\ col[p] \in {<<0, 1>>, <<1, 1>>}
                    /\ col[p] = <<1, 1>> <=>
                          (src[p][2] = 1 /\ src[p][1] > output_targets.threshold)

C4_Witness ==
    /\ output_targets.state = "returned"
    /\ output_targets.threshold = 265000
    /\ Len(output_targets.df.index) = 2
    /\ california_housing_df.data["median_house_value"] = <<<<265000, 1>>, <<265001, 1>>>>
    /\ output_targets.df.data["median_house_value_is_high"] = <<<<0, 1>>, <<1, 1>>>>

\* C5: in the table preprocess_features returns, rooms_per_person of row i is
\* total_rooms of row i divided by population of row i; where population is
\* zero the value is inf or NaN, the call returns all the same, and the other
\* rows have their own quotient.
C5_RoomsPerPerson ==
    processed_features.state = "returned" =>
        LET rpp   == processed_features.df.data["rooms_per_person"]
            rooms == california_housing_df.data["total_rooms"]
            pop   == california_housing_df.data["population"]
        IN  /\ Len(rpp) = Len(california_housing_df.index)
            /\ \A p \in DOMAIN rpp :
                  IF pop[p][1] = 0
                  THEN rpp[p][2] = 0
                  ELSE /\ rpp[p][2] > 0
                       /\ rpp[p][1] * pop[p][1] = rpp[p][2] * rooms[p][1]

C5_Witness ==
    /\ processed_features.state = "returned"
    /\ Len(california_housing_df.index) = 2
    /\ california_housing_df.data["total_rooms"] = <<<<3, 1>>, <<3, 1>>>>
    /\ california_housing_df.data["population"] = <<<<0, 1>>, <<2, 1>>>>
    /\ processed_features.df.data["rooms_per_person"] = <<<<1, 0>>, <<3, 2>>>>

EightNames ==
    {"latitude", "longitude", "housing_median_age", "total_rooms",
     "total_bedrooms", "population", "households", "median_income"}

C7_Outcome ==
    /\ processed_features.state # "not_called" =>
          /\ (\E c \in EightNames : ~HasColumn(california_housing_df, c))
                <=> processed_features.state = "KeyError"
          /\ processed_features.state = "KeyError" =>
                processed_features.df = EmptyFrame
    /\ output_targets.state # "not_called" =>
          /\ ~HasColumn(california_housing_df, "median_house_value")
                <=> output_targets.state = "KeyError"
          /\ output_targets.state = "KeyError" => output_targets.df = EmptyFrame
    /\ processed_features.state = "returned" =>
          /\ Len(processed_features.df.index) = Len(california_housing_df.index)
          /\ \A p \in DOMAIN california_housing_df.index :
                california_housing_df.data["population"][p] = <<0, 1>> =>
                    processed_features.df.data["rooms_per_person"][p][2] = 0
    /\ raised # "" =>
          /\ pc = "raised"
          /\ returned = NoEstimator
          /\ Len(training_hist) = period
          /\ Len(validation_hist) = period
          /\ Len(stdout) = 2 + period
          /\ estimator.chunks = period + (IF raised = "train" THEN 0 ELSE 1)
          /\ \A k \in 1..Len(figures) : \A l \in Range(figures[k].lines) :
                \A e \in Range(l.data) : e.est # calls

\* C7: no failure is handled.  A call of a preparation function on a table
\* that lacks a column it reads raises and returns no table; a division by
\* zero raises nothing, and its row is kept with its non-finite value.  When
\* the train, predict or metric call of a period raises, the training function
\* is left at once: no later train call, no retry, no further print or
\* append, no plot, no estimator returned.
C7_FailuresPropagate ==
    /\ []C7_Outcome
    /\ [][(raised # "" /\ raised' # "") => UNCHANGED trainVars]_vars

C7_Witness ==
    /\ raised = "training_metric"
    /\ pc = "raised"
    /\ period = 4
    /\ Len(training_hist) = 4

C10_Returned ==
    processed_features.state = "returned" =>
        LET t == processed_features.df
        IN  /\ t.columns =
                  <<"latitude", "longitude", "housing_median_age", "total_rooms",
                    "total_bedrooms", "population", "households", "median_income",
                    "rooms_per_person">>
            /\ DOMAIN t.data = EightNames \cup {"rooms_per_person"}
            /\ t.index = california_housing_df.index
            /\ \A c \in EightNames :
                  /\ t.data[c] = california_housing_df.data[c]
                  /\ Len(t.data[c]) = Len(california_housing_df.index)

\* C10: the preparation functions leave the caller's table as it was; the
\* table preprocess_features returns has the 8 selected columns with the
\* input's values, then rooms_per_person, and the rows of the input, whatever
\* other columns the input has.
C10_InputUntouched ==
    /\ []C10_Returned
    /\ [](/\ ~HasColumn(california_housing_df, "rooms_per_person")
          /\ ~HasColumn(california_housing_df, "median_house_value_is_high"))
    /\ [][california_housing_df' = california_housing_df]_vars

C10_Witness ==
    /\ processed_features.state = "returned"
    /\ output_targets.state = "returned"
    /\ HasColumn(california_housing_df, "ocean_proximity")
    /\ Len(california_housing_df.index) = 2
    /\ Len(processed_features.df.columns) = 9

\* C9: every prediction pass yields one prediction per row of its table, in
\* row order, so prediction i is scored against target i; the training metric
\* comes from training examples and training targets only, the validation
\* metric from validation examples and validation targets only; only training
\* data is ever given to train.
C9_Scoring ==
    pc # "idle" =>
        /\ estimator.trained_on \subseteq {"training"}
        /\ training_predictions # NoPredictions =>
              /\ training_predictions.data = "training"
              /\ training_predictions.rows = [i \in 1..NTrainRows |-> i]
        /\ validation_predictions # NoPredictions =>
              /\ validation_predictions.data = "validation"
              /\ validation_predictions.rows = [i \in 1..NValidRows |-> i]
        /\ \A m \in {training_metric} \cup Range(training_hist) :
              m # NoMetric =>
                  /\ m.pred_data = "training"
                  /\ m.targ_data = "training"
                  /\ m.pred_rows = m.targ_rows
                  /\ Len(m.pred_rows) = NTrainRows
        /\ \A m \in {validation_metric} \cup Range(validation_hist) :
              m # NoMetric =>
                  /\ m.pred_data = "validation"
                  /\ m.targ_data = "validation"
                  /\ m.pred_rows = m.targ_rows
                  /\ Len(m.pred_rows) = NValidRows

C9_Witness ==
    /\ pc = "print"
    /\ period = 9
    /\ Len(training_metric.pred_rows) = NTrainRows
    /\ Len(validation_metric.pred_rows) = NValidRows
    /\ Len(training_hist) = 9

\* The least k with k * b >= N.
CeilDiv(N, b) == CHOOSE k \in 0..N : k * b >= N /\ (k = 0 \/ (k - 1) * b < N)

\* A batch of the unshuffled epoch: consecutive rows from a multiple of the
\* batch size on, batch_size of them or what is left of the table.
IsEpochBatch(batch, N, b) ==
    /\ Len(batch) >= 1
    /\ (batch[1] - 1) % b = 0
    /\ \A k \in 2..Len(batch) : batch[k] = batch[k - 1] + 1
    /\ batch[Len(batch)] <= N
    /\ Len(batch) = b \/ (Len(batch) < b /\ batch[Len(batch)] = N)

Count(seq, x) == Cardinality({k \in DOMAIN seq : seq[k] = x})

\* Finite num_epochs without shuffling: rows in table order, epoch after
\* epoch, in whole batches of an epoch, n * ceil(N / batch_size) batches in
\* all and then the end.
C8_InOrder ==
    (entry = "input_fn" /\ ~iterator.shuffle /\ iterator.num_epochs # None) =>
        LET N    == iterator.N
            n    == iterator.num_epochs
            rows == Flatten(delivered)
        IN  /\ \A k \in DOMAIN rows : rows[k] = ((k - 1) % N) + 1
            /\ Len(delivered) <= n * CeilDiv(N, iterator.batch_size)
            /\ exhausted =>
                  /\ Len(delivered) = n * CeilDiv(N, iterator.batch_size)
                  /\ Len(rows) = n * N
                  /\ \A r \in 1..N : Count(rows, r) = n

\* Shuffled or not: every batch delivered is a batch of the unshuffled epoch,
\* and a finite iterator read to its end has delivered each of them
\* num_epochs times.
C8_Content ==
    entry = "input_fn" =>
        LET N == iterator.N
            b == iterator.batch_size
        IN  /\ \A i \in DOMAIN delivered : IsEpochBatch(delivered[i], N, b)
            /\ (iterator.num_epochs # None /\ exhausted) =>
                  /\ Len(delivered) = iterator.num_epochs * CeilDiv(N, b)
                  /\ \A i \in DOMAIN delivered :
                        Count(delivered, delivered[i]) = iterator.num_epochs

\* C8 as stated: my_input_fn over N rows with num_epochs = n and shuffle =
\* False delivers the rows in order, each n times, in batches that stay
\* within an epoch, and then ends; with num_epochs = None the iterator never
\* ends; shuffle = True changes the order of the batches only.
C8_AsStated ==
    /\ C8_InOrder
    /\ C8_Content
    /\ (entry = "input_fn" /\ iterator.num_epochs = None) => ~exhausted

\* C8, amended: as stated, and with num_epochs = None the iterator never ends
\* provided the table has at least one row.
C8_InputIterator ==
    /\ C8_InOrder
    /\ C8_Content
    /\ (entry = "input_fn" /\ iterator.num_epochs = None /\ iterator.N >= 1)
          => ~exhausted

C8_Witness ==
    /\ entry = "input_fn"
    /\ ~iterator.shuffle
    /\ iterator.N = 3
    /\ iterator.batch_size = 2
    /\ iterator.num_epochs = 2
    /\ exhausted
    /\ delivered = <<<<1, 2>>, <<3>>, <<1, 2>>, <<3>>>>

=============================================================================
